---- MODULE Spec2Model ----
(***************************************************************************)
(* Model of markitdown-parser/app.py: the /parse request handler, its      *)
(* validation (allowed_file, size check), the staging of the upload in a   *)
(* temporary file, parse_document / extract_metadata, and the cleanup in   *)
(* the handler's finally block.                                            *)
(*                                                                         *)
(* Strings that the code inspects character by character (filenames,       *)
(* extensions, suffixes) are sequences of one-character strings.           *)
(***************************************************************************)
EXTENDS Integers, Sequences, FiniteSets, TLC

VARIABLES pc, upload, temp_file, engine, resp, disk, logged, readOwner, unlinkedOwner

vars == <<pc, upload, temp_file, engine, resp, disk, logged, readOwner, unlinkedOwner>>

(***************************************************************************)
(* Bounds of the model.                                                    *)
(***************************************************************************)
\* longest filename a client submits
MaxLen == 4
\* number of distinct random names tempfile can draw
NumNames == 3
\* number of /parse requests served (concurrently under SpecConc)
NumRequests == 2

(***************************************************************************)
(* Configuration (app.py 30-39).                                           *)
(***************************************************************************)
MAX_FILE_SIZE == 52428800

ALLOWED_EXTENSIONS ==
    { <<"p","d","f">>, <<"d","o","c","x">>, <<"d","o","c">>, <<"x","l","s","x">>,
      <<"x","l","s">>, <<"p","p","t","x">>, <<"p","p","t">>, <<"p","n","g">>,
      <<"j","p","g">>, <<"j","p","e","g">>, <<"g","i","f">>, <<"b","m","p">>,
      <<"h","t","m","l">>, <<"h","t","m">>, <<"t","x","t">>, <<"m","d">>,
      <<"c","s","v">> }

(***************************************************************************)
(* The inputs.                                                             *)
(***************************************************************************)
Requests == 1..NumRequests

\* characters of the submitted filenames: two lower-case letters, one
\* upper-case letter and the dot
Alphabet == {"m", "d", "D", "."}

Filenames == UNION { [1..n -> Alphabet] : n \in 0..MaxLen }

\* measured byte lengths of the upload
Sizes == {0, MAX_FILE_SIZE, MAX_FILE_SIZE + 1, 62914560}

NoUpload == [hasFile |-> FALSE, filename |-> <<>>, size |-> 0]

\* a request without the 'file' field, or a file part with a name and a size
Uploads == {NoUpload} \cup [hasFile : {TRUE}, filename : Filenames, size : Sizes]

(***************************************************************************)
(* String helpers.                                                         *)
(***************************************************************************)
\* str.lower() on one character
LowerChar(c) ==
    CASE c = "D" -> "d"
      [] c = "M" -> "m"
      [] OTHER -> c

\* str.lower()
Lower(s) == [i \in 1..Len(s) |-> LowerChar(s[i])]

\* '.' in s
HasDot(s) == \E i \in 1..Len(s) : s[i] = "."

\* s.rfind('.') as a 1-based index, 0 when there is no dot
LastDot(s) ==
    IF HasDot(s) THEN CHOOSE i \in 1..Len(s) :
                          /\ s[i] = "."
                          /\ \A j \in (i+1)..Len(s) : s[j] # "."
    ELSE 0

\* s.rsplit('.', 1)[1]
RSplitExt(s) == SubSeq(s, LastDot(s) + 1, Len(s))

\* allowed_file without the "'.' in filename" test, taking the last piece of
\* the split: a name without a dot is its own extension
allowed_fileNoDotCheck(filename) ==
    Lower(RSplitExt(filename)) \in ALLOWED_EXTENSIONS

\* allowed_file (app.py 48-51)
allowed_file(filename) ==
    /\ HasDot(filename)
    /\ Lower(RSplitExt(filename)) \in ALLOWED_EXTENSIONS

\* characters werkzeug's secure_filename keeps: [A-Za-z0-9_.-]
SafeChar(c) == c \in {"m", "d", "D", "M", ".", "_", "-"}

RECURSIVE StripEnds(_)
\* str.strip("._")
StripEnds(s) ==
    IF s = <<>> THEN s
    ELSE IF Head(s) \in {".", "_"} THEN StripEnds(Tail(s))
    ELSE IF s[Len(s)] \in {".", "_"} THEN StripEnds(SubSeq(s, 1, Len(s) - 1))
    ELSE s

\* werkzeug.utils.secure_filename on a name without separators or blanks
secure_filename(s) == StripEnds(SelectSeq(s, SafeChar))

\* pathlib.PurePath.suffix: from the last dot on, unless the dot is the
\* first or the last character
PathSuffix(name) ==
    IF LastDot(name) > 1 /\ LastDot(name) < Len(name)
    THEN SubSeq(name, LastDot(name), Len(name))
    ELSE <<>>


\* mimetypes.guess_type on a path with this suffix; "" stands for None
GuessType(suffix) ==
    IF Lower(suffix) = <<".", "m", "d">> THEN "text/markdown" ELSE ""

(***************************************************************************)
(* The staged file.  tempfile.NamedTemporaryFile draws a random name and   *)
(* creates the file with O_EXCL, so the path it returns did not exist.     *)
(* The random part identifies the file here (the suffix is kept beside     *)
(* it); the disk maps each random part to the file that exists under it.   *)
(***************************************************************************)
TmpIds == {ToString(i) : i \in 1..NumNames}

NoTemp == [id |-> "", suffix |-> <<>>]

NoFile == [owner |-> 0, size |-> 0]

\* os.path.basename(temp_file.name)
Basename(t) == <<"t", "m", "p", t.id>> \o t.suffix

\* os.path.exists(temp_file.name)
Exists(d, t) == d[t.id] # NoFile

\* a temporary file created without O_EXCL: any name may be drawn
AnyNames(d) == TmpIds

\* the names NamedTemporaryFile may return: those of no existing file
FreeNames(d) == {n \in TmpIds : d[n] = NoFile}

(***************************************************************************)
(* The conversion engine's result (MarkItDown.convert), as far as the code *)
(* reads it: whether convert raised, the text_content attribute, and the   *)
(* metadata attribute.                                                     *)
(*   metaKind  "noattr"   the result has no attribute 'metadata'          *)
(*             "falsy"    metadata is None or an empty mapping            *)
(*             "mapping"  metadata is a non-empty mapping                 *)
(*             "list"     metadata is a non-empty list (no .get)          *)
(*             "int"      metadata is a non-zero number (no .get, no in)  *)
(*             "raises"   reading the attribute raises (not an            *)
(*                        AttributeError)                                 *)
(***************************************************************************)
DateKinds == {"absent", "empty", "iso", "junk"}

\* a created_date / modified_date value of the document
DocDate(k) == [k |-> k, src |-> "doc"]

\* datetime.fromtimestamp(t).isoformat() + 'Z' and datetime.utcnow().isoformat() + 'Z'
IsoFormat(src) == [k |-> "iso", src |-> src]

\* Python truthiness of a date value: None and '' are false
Truthy(v) == v.k \notin {"absent", "empty"}

OptionalKeys == {"author", "pages", "title", "subject"}

OptionalKeySets == {{}, {"author"}, {"pages", "title"}, OptionalKeys}

FieldValue(k) ==
    CASE k = "author" -> "Jane"
      [] k = "pages" -> "12"
      [] k = "title" -> "Report"
      [] OTHER -> "Annual"

NoResult ==
    [raises |-> FALSE, cause |-> "", hasText |-> FALSE, metaKind |-> "none",
     created |-> "absent", modified |-> "absent", opt |-> {}]

RaisingResult ==
    [raises |-> TRUE, cause |-> "decoding error", hasText |-> FALSE,
     metaKind |-> "noattr", created |-> "absent", modified |-> "absent", opt |-> {}]

PlainResults ==
    [raises : {FALSE}, cause : {""}, hasText : BOOLEAN,
     metaKind : {"noattr", "falsy", "list", "int", "raises"},
     created : {"absent"}, modified : {"absent"}, opt : {{}}]

MappingResults ==
    [raises : {FALSE}, cause : {""}, hasText : BOOLEAN, metaKind : {"mapping"},
     created : DateKinds, modified : DateKinds, opt : OptionalKeySets]

EngineResults == {RaisingResult} \cup PlainResults \cup MappingResults

(***************************************************************************)
(* extract_metadata (app.py 54-112).                                       *)
(***************************************************************************)
WarnCreated == "Creation date not found in document, using file system date"

WarnModified == "Modified date not found in document, using file system date"

\* line 91; the text of the exception, which the code interpolates, is left out
WarnFailed == "Date extraction failed, using current timestamp"

\* lines 65-91 with the second fallback testing created_date again
ExtractDatesShared(result) ==
    IF result.metaKind \in {"list", "int", "raises"}
    THEN [created |-> IsoFormat("now"), modified |-> IsoFormat("now"),
          warnings |-> <<WarnFailed>>]
    ELSE LET c == IF result.metaKind = "mapping"
                  THEN DocDate(result.created) ELSE DocDate("absent")
             m == IF result.metaKind = "mapping"
                  THEN DocDate(result.modified) ELSE DocDate("absent")
         IN  [created  |-> IF Truthy(c) THEN c ELSE IsoFormat("ctime"),
              modified |-> IF Truthy(c) THEN m ELSE IsoFormat("mtime"),
              warnings |-> IF Truthy(c) THEN <<>> ELSE <<WarnCreated, WarnModified>>]

\* lines 65-91: the dates and the warnings.  Reading the metadata of a
\* result whose metadata is no mapping (or whose attribute raises) raises
\* inside the try block, before either date is set: the except branch
\* fills both from the current time.
ExtractDates(result) ==
    IF result.metaKind \in {"list", "int", "raises"}
    THEN [created |-> IsoFormat("now"), modified |-> IsoFormat("now"),
          warnings |-> <<WarnFailed>>]
    ELSE LET c == IF result.metaKind = "mapping"
                  THEN DocDate(result.created) ELSE DocDate("absent")
             m == IF result.metaKind = "mapping"
                  THEN DocDate(result.modified) ELSE DocDate("absent")
         IN  [created  |-> IF Truthy(c) THEN c ELSE IsoFormat("ctime"),
              modified |-> IF Truthy(m) THEN m ELSE IsoFormat("mtime"),
              warnings |-> (IF Truthy(c) THEN <<>> ELSE <<WarnCreated>>)
                           \o (IF Truthy(m) THEN <<>> ELSE <<WarnModified>>)]

\* lines 101-110 raise: 'author' in <number> is a TypeError, and a
\* metadata attribute that raises does so again in the second hasattr
OptionalRaises(result) == result.metaKind \in {"int", "raises"}

\* lines 101-110: the optional fields that are copied
OptionalFields(result) ==
    IF result.metaKind = "mapping"
    THEN [k \in result.opt |-> FieldValue(k)]
    ELSE [k \in {} |-> ""]

NoMetadata ==
    [filename |-> <<>>, size |-> 0, mimeType |-> "", createdDate |-> DocDate("absent"),
     modifiedDate |-> DocDate("absent"), extra |-> [k \in {} |-> ""]]

\* extract_metadata(filepath, result), with st the file os.stat finds at
\* filepath (NoFile when there is none: os.stat raises at line 59)
extract_metadata(t, st, result) ==
    IF st = NoFile
    THEN [raised |-> TRUE, cause |-> "No such file or directory",
          metadata |-> NoMetadata, warnings |-> <<>>]
    ELSE IF OptionalRaises(result)
    THEN [raised |-> TRUE,
          cause |-> IF result.metaKind = "int"
                    THEN "argument of type 'int' is not iterable"
                    ELSE "metadata unavailable",
          metadata |-> NoMetadata, warnings |-> <<>>]
    ELSE [raised |-> FALSE, cause |-> "",
          metadata |->
              [filename |-> Basename(t),
               size |-> st.size,
               mimeType |-> IF GuessType(t.suffix) = ""
                            THEN "application/octet-stream"
                            ELSE GuessType(t.suffix),
               createdDate |-> ExtractDates(result).created,
               modifiedDate |-> ExtractDates(result).modified,
               extra |-> OptionalFields(result)],
          warnings |-> ExtractDates(result).warnings]


(***************************************************************************)
(* The response envelopes (jsonify(...), status).  message is the text of  *)
(* the f-string and the values interpolated into it.                       *)
(***************************************************************************)
NoDetails == [filename |-> <<>>, stage |-> ""]

NoData == [markdown |-> "", metadata |-> NoMetadata, warnings |-> <<>>]

NoResp ==
    [success |-> FALSE, status |-> 0, code |-> "NONE",
     message |-> [text |-> "", args |-> <<>>], details |-> NoDetails, data |-> NoData]

Failure(code, status, text, args, details) ==
    [success |-> FALSE, status |-> status, code |-> code,
     message |-> [text |-> text, args |-> args], details |-> details, data |-> NoData]

Success(data) ==
    [success |-> TRUE, status |-> 200, code |-> "",
     message |-> [text |-> "", args |-> <<>>], details |-> NoDetails, data |-> data]

\* the validation passed: what Validate leaves in resp until a response is built
Pass == NoResp

\* line 211 with >= for >
TooLargeInclusive(size) == size >= MAX_FILE_SIZE

\* line 211
TooLarge(size) == size > MAX_FILE_SIZE

\* lines 174-218 of parse: the checks before the upload is staged
ValidateResult(up) ==
    IF ~up.hasFile
    THEN Failure("NO_FILE", 400, "No file provided in request", <<>>, NoDetails)
    ELSE IF up.filename = <<>>
    THEN Failure("EMPTY_FILENAME", 400, "No file selected", <<>>, NoDetails)
    ELSE IF ~allowed_file(up.filename)
    THEN Failure("INVALID_FILE_TYPE", 400, "File type not allowed. Allowed types: ",
                 <<"ALLOWED_EXTENSIONS">>, NoDetails)
    ELSE IF TooLarge(up.size)
    THEN Failure("FILE_TOO_LARGE", 400,
                 "File size (..) exceeds maximum allowed size (..)",
                 <<up.size, MAX_FILE_SIZE>>, NoDetails)
    ELSE Pass

\* lines 140-152 of parse_document: the except branch
ParseError(t, cause) ==
    Failure("PARSE_ERROR", 500, "Failed to parse document: ", <<cause>>,
            [filename |-> Basename(t), stage |-> "document_parsing"])

\* lines 237-245 of parse: the except branch
InternalError(cause) ==
    Failure("INTERNAL_ERROR", 500, "Internal server error: ", <<cause>>, NoDetails)

\* line 129
Markdown(result) == IF result.hasText THEN "text_content" ELSE "str(result)"

\* lines 125-152 of parse_document, after convert returned `result`
ParseDocumentAfterConvert(t, st, result) ==
    LET em == extract_metadata(t, st, result)
    IN  IF em.raised
        THEN ParseError(t, em.cause)
        ELSE Success([markdown |-> Markdown(result), metadata |-> em.metadata,
                      warnings |-> em.warnings])

(***************************************************************************)
(* The state.                                                              *)
(*   pc[r]         where request r is in parse                             *)
(*   upload[r]     request.files['file'] of r                              *)
(*   temp_file[r]  the local temp_file (NoTemp is None)                    *)
(*   engine[r]     what md_converter.convert returned or raised for r      *)
(*   resp[r]       the response r returns                                  *)
(*   disk          the files in the temporary directory                    *)
(*   logged[r]     "Failed to delete temporary file" was logged for r      *)
(*   readOwner[r]  whose file the engine read for r (0: none)              *)
(*   unlinkedOwner[r]  whose file r's os.unlink removed (0: none)          *)
(***************************************************************************)
Init ==
    /\ pc = [r \in Requests |-> "idle"]
    /\ upload = [r \in Requests |-> NoUpload]
    /\ temp_file = [r \in Requests |-> NoTemp]
    /\ engine = [r \in Requests |-> NoResult]
    /\ resp = [r \in Requests |-> NoResp]
    /\ disk = [n \in TmpIds |-> NoFile]
    /\ logged = [r \in Requests |-> FALSE]
    /\ readOwner = [r \in Requests |-> 0]
    /\ unlinkedOwner = [r \in Requests |-> 0]

\* lines 174-222: the request arrives and is validated
Validate(r, up) ==
    /\ pc[r] = "idle"
    /\ upload' = [upload EXCEPT ![r] = up]
    /\ resp' = [resp EXCEPT ![r] = ValidateResult(up)]
    /\ pc' = [pc EXCEPT ![r] = IF ValidateResult(up) = Pass THEN "staging" ELSE "done"]
    /\ UNCHANGED <<temp_file, engine, disk, logged, readOwner, unlinkedOwner>>

\* line 226: NamedTemporaryFile(delete=False, suffix=...) creates the file
\* under a name n of no existing file, or raises (temp_file stays None)
CreateTemp(r, n, ok) ==
    /\ pc[r] = "staging"
    /\ ok => n \in FreeNames(disk)
    /\ IF ok
       THEN /\ temp_file' = [temp_file EXCEPT ![r] =
                   [id |-> n, suffix |-> PathSuffix(secure_filename(upload[r].filename))]]
            /\ disk' = [disk EXCEPT ![n] = [owner |-> r, size |-> 0]]
            /\ pc' = [pc EXCEPT ![r] = "saving"]
            /\ UNCHANGED resp
       ELSE /\ resp' = [resp EXCEPT ![r] = InternalError("cannot create temporary file")]
            /\ pc' = [pc EXCEPT ![r] = "cleanup"]
            /\ UNCHANGED <<temp_file, disk>>
    /\ UNCHANGED <<upload, engine, logged, readOwner, unlinkedOwner>>

\* line 227: file.save(temp_file.name) writes the upload, or raises
Save(r, ok) ==
    /\ pc[r] = "saving"
    /\ IF ok
       THEN /\ disk' = [disk EXCEPT ![temp_file[r].id] =
                   [owner |-> r, size |-> upload[r].size]]
            /\ pc' = [pc EXCEPT ![r] = "converting"]
            /\ UNCHANGED resp
       ELSE /\ resp' = [resp EXCEPT ![r] = InternalError("No space left on device")]
            /\ pc' = [pc EXCEPT ![r] = "cleanup"]
            /\ UNCHANGED disk
    /\ UNCHANGED <<upload, temp_file, engine, logged, readOwner, unlinkedOwner>>

\* line 123: md_converter.convert(filepath) reads the staged file and
\* returns a result or raises
Convert(r, result) ==
    /\ pc[r] = "converting"
    /\ engine' = [engine EXCEPT ![r] = result]
    /\ readOwner' = [readOwner EXCEPT ![r] = disk[temp_file[r].id].owner]
    /\ IF result.raises
       THEN /\ resp' = [resp EXCEPT ![r] = ParseError(temp_file[r], result.cause)]
            /\ pc' = [pc EXCEPT ![r] = "cleanup"]
       ELSE /\ pc' = [pc EXCEPT ![r] = "reconciling"]
            /\ UNCHANGED resp
    /\ UNCHANGED <<upload, temp_file, disk, logged, unlinkedOwner>>

\* lines 125-152 and 235: extract_metadata (os.stat of the staged path)
\* and the envelope parse_document returns
Reconcile(r) ==
    /\ pc[r] = "reconciling"
    /\ resp' = [resp EXCEPT ![r] =
           ParseDocumentAfterConvert(temp_file[r], disk[temp_file[r].id], engine[r])]
    /\ pc' = [pc EXCEPT ![r] = "cleanup"]
    /\ UNCHANGED <<upload, temp_file, engine, disk, logged, readOwner, unlinkedOwner>>

\* line 249: if temp_file and os.path.exists(temp_file.name)
NeedsUnlink(r) == temp_file[r] # NoTemp /\ Exists(disk, temp_file[r])

\* line 249 of the finally block
Cleanup(r) ==
    /\ pc[r] = "cleanup"
    /\ pc' = [pc EXCEPT ![r] = IF NeedsUnlink(r) THEN "unlinking" ELSE "done"]
    /\ UNCHANGED <<upload, temp_file, engine, resp, disk, logged, readOwner, unlinkedOwner>>

\* the finally block without the os.unlink call
UnlinkSkipped(r, ok) ==
    /\ pc[r] = "unlinking"
    /\ pc' = [pc EXCEPT ![r] = "done"]
    /\ UNCHANGED <<upload, temp_file, engine, resp, disk, logged, readOwner, unlinkedOwner>>

\* lines 250-254: os.unlink(temp_file.name) removes the file, or raises and
\* the failure is logged; the response is returned either way
Unlink(r, ok) ==
    /\ pc[r] = "unlinking"
    /\ IF ok /\ Exists(disk, temp_file[r])
       THEN /\ disk' = [disk EXCEPT ![temp_file[r].id] = NoFile]
            /\ unlinkedOwner' = [unlinkedOwner EXCEPT ![r] = disk[temp_file[r].id].owner]
            /\ UNCHANGED logged
       ELSE /\ logged' = [logged EXCEPT ![r] = TRUE]
            /\ UNCHANGED <<disk, unlinkedOwner>>
    /\ pc' = [pc EXCEPT ![r] = "done"]
    /\ UNCHANGED <<upload, temp_file, engine, resp, readOwner>>

\* one request at a time, every upload and every engine result
Next ==
    \E r \in {1} :
        \/ \E up \in Uploads : Validate(r, up)
        \/ \E n \in TmpIds, ok \in BOOLEAN : CreateTemp(r, n, ok)
        \/ \E ok \in BOOLEAN : Save(r, ok)
        \/ \E result \in EngineResults : Convert(r, result)
        \/ Reconcile(r)
        \/ Cleanup(r)
        \/ \E ok \in BOOLEAN : Unlink(r, ok)

Spec == Init /\ [][Next]_vars


(***************************************************************************)
(* Concurrent requests: every request of Requests is served by its own     *)
(* thread, the steps of parse interleave at the file-system and engine     *)
(* calls.  The uploads and engine results are a few representative ones.   *)
(***************************************************************************)
ConcUploads ==
    { [hasFile |-> TRUE, filename |-> <<"d", ".", "m", "d">>, size |-> MAX_FILE_SIZE],
      [hasFile |-> TRUE, filename |-> <<".", "m", "D">>, size |-> 0] }

ConcResults ==
    { RaisingResult,
      [raises |-> FALSE, cause |-> "", hasText |-> TRUE, metaKind |-> "mapping",
       created |-> "iso", modified |-> "absent", opt |-> {"author"}] }

NextConc ==
    \E r \in Requests :
        \/ \E up \in ConcUploads : Validate(r, up)
        \/ \E n \in TmpIds, ok \in BOOLEAN : CreateTemp(r, n, ok)
        \/ \E ok \in BOOLEAN : Save(r, ok)
        \/ \E result \in ConcResults : Convert(r, result)
        \/ Reconcile(r)
        \/ Cleanup(r)
        \/ \E ok \in BOOLEAN : Unlink(r, ok)

SpecConc == Init /\ [][NextConc]_vars


(***************************************************************************)
(* Vocabulary of the properties.                                           *)
(***************************************************************************)
\* the filename has an extension (the text after its last dot) whose
\* lower-case form is on the allow-list
ExtensionAllowed(f) ==
    \E i \in 1..Len(f) :
        /\ f[i] = "."
        /\ \A j \in (i+1)..Len(f) : f[j] # "."
        /\ Lower(SubSeq(f, i + 1, Len(f))) \in ALLOWED_EXTENSIONS

\* request r has arrived
Arrived(r) == pc[r] # "idle"

\* request r has arrived and its upload passes every validation check
PassedValidation(r) ==
    /\ Arrived(r)
    /\ upload[r].hasFile
    /\ ExtensionAllowed(upload[r].filename)
    /\ upload[r].size <= MAX_FILE_SIZE

\* a file staged by r is on the disk
StagedFileExists(r) == \E n \in TmpIds : disk[n].owner = r

\* nothing was staged and the engine was not invoked for r
NothingStaged(r) ==
    /\ temp_file[r] = NoTemp
    /\ ~StagedFileExists(r)
    /\ engine[r] = NoResult
    /\ readOwner[r] = 0

\* r's response has been built by parse_document or an except branch
Answered(r) == resp[r].status # 0

IsIso(v) == v.k = "iso"

\* the engine supplied this date: its metadata is a mapping holding a
\* non-empty value
Supplied(result, kind) == result.metaKind = "mapping" /\ kind \in {"iso", "junk"}

\* r holds a staged path: from its creation to the end of the finally block
InFlight(r) ==
    /\ temp_file[r] # NoTemp
    /\ pc[r] \in {"saving", "converting", "reconciling", "cleanup", "unlinking"}

(***************************************************************************)
(* C1                                                                      *)
(***************************************************************************)
\* C1 (as claimed): once a validated request has returned, however it
\* ended, no file staged by it exists on disk.
C1_NoStagedFileAfterResponse ==
    \A r \in Requests :
        (pc[r] = "done" /\ PassedValidation(r)) => ~StagedFileExists(r)

\* C1 (amended): once a validated request has returned, however it ended,
\* a file staged by it exists on disk exactly when its os.unlink failed and
\* the failure was logged.
C1_StagedFileRemovedUnlessUnlinkFailed ==
    \A r \in Requests :
        (pc[r] = "done" /\ PassedValidation(r)) => (StagedFileExists(r) <=> logged[r])

\* a request whose file.save raised has returned INTERNAL_ERROR and its
\* staged file has been unlinked
C1_Witness ==
    \E r \in Requests :
        /\ pc[r] = "done"
        /\ resp[r].code = "INTERNAL_ERROR"
        /\ temp_file[r] # NoTemp
        /\ unlinkedOwner[r] = r
        /\ ~StagedFileExists(r)

(***************************************************************************)
(* C2                                                                      *)
(***************************************************************************)
\* C2: when the engine returned a result without raising, the response is
\* Success with HTTP 200, whatever happens inside extract_metadata.
C2_ReconciliationNeverFails ==
    \A r \in Requests :
        (Answered(r) /\ engine[r] # NoResult /\ ~engine[r].raises)
            => (resp[r].success /\ resp[r].status = 200)

(***************************************************************************)
(* C3                                                                      *)
(***************************************************************************)
\* C3: in every Success response createdDate and modifiedDate are
\* well-formed ISO-8601 strings.
C3_DatesWellFormed ==
    \A r \in Requests :
        resp[r].success =>
            /\ IsIso(resp[r].data.metadata.createdDate)
            /\ IsIso(resp[r].data.metadata.modifiedDate)

(***************************************************************************)
(* C4                                                                      *)
(***************************************************************************)
\* C4 (as claimed): every submitted filename without an allowed extension,
\* the empty filename included, is answered INVALID_FILE_TYPE / 400, and
\* nothing is staged or converted.
C4_InvalidTypeRejected ==
    \A r \in Requests :
        (Arrived(r) /\ upload[r].hasFile /\ ~ExtensionAllowed(upload[r].filename))
            => /\ resp[r].code = "INVALID_FILE_TYPE"
               /\ resp[r].status = 400
               /\ pc[r] = "done"
               /\ NothingStaged(r)

\* C4 (amended): every submitted non-empty filename without an allowed
\* extension is answered INVALID_FILE_TYPE / 400, the empty filename is
\* answered EMPTY_FILENAME / 400, and in both cases nothing is staged or
\* converted.
C4_NonEmptyInvalidTypeRejected ==
    \A r \in Requests :
        (Arrived(r) /\ upload[r].hasFile /\ ~ExtensionAllowed(upload[r].filename))
            => /\ resp[r].code = IF upload[r].filename = <<>>
                                 THEN "EMPTY_FILENAME" ELSE "INVALID_FILE_TYPE"
               /\ resp[r].status = 400
               /\ pc[r] = "done"
               /\ NothingStaged(r)

\* 'md.D' (extension 'D', lower-case 'd', not on the list) was rejected
C4_Witness ==
    \E r \in Requests :
        /\ pc[r] = "done"
        /\ upload[r].hasFile
        /\ upload[r].filename = <<"m", "d", ".", "D">>
        /\ resp[r].code = "INVALID_FILE_TYPE"

(***************************************************************************)
(* C5                                                                      *)
(***************************************************************************)
\* C5: an upload with an allowed filename and more than MAX_FILE_SIZE bytes
\* is answered FILE_TOO_LARGE / 400 with both sizes in the message, and
\* nothing is staged or converted; one of exactly MAX_FILE_SIZE bytes is
\* not rejected by the size check.
C5_TooLargeRejected ==
    \A r \in Requests :
        (Arrived(r) /\ upload[r].hasFile /\ ExtensionAllowed(upload[r].filename))
            => /\ upload[r].size > MAX_FILE_SIZE =>
                    /\ resp[r].code = "FILE_TOO_LARGE"
                    /\ resp[r].status = 400
                    /\ resp[r].message.args = <<upload[r].size, MAX_FILE_SIZE>>
                    /\ pc[r] = "done"
                    /\ NothingStaged(r)
               /\ upload[r].size = MAX_FILE_SIZE =>
                    /\ resp[r].code # "FILE_TOO_LARGE"
                    /\ resp[r].status # 400

\* an upload of MAX_FILE_SIZE + 1 bytes was rejected
C5_Witness ==
    \E r \in Requests :
        /\ pc[r] = "done"
        /\ ExtensionAllowed(upload[r].filename)
        /\ upload[r].size = MAX_FILE_SIZE + 1
        /\ resp[r].code = "FILE_TOO_LARGE"

(***************************************************************************)
(* C6                                                                      *)
(***************************************************************************)
\* C6: when the engine raises, the response is PARSE_ERROR / 500 with
\* stage "document_parsing" and details.filename the uploaded filename.
C6_ParseErrorNamesUpload ==
    \A r \in Requests :
        (Answered(r) /\ engine[r].raises)
            => /\ resp[r].code = "PARSE_ERROR"
               /\ resp[r].status = 500
               /\ resp[r].details.stage = "document_parsing"
               /\ resp[r].details.filename = upload[r].filename

(***************************************************************************)
(* C7                                                                      *)
(***************************************************************************)
\* C7: an exception while staging is answered INTERNAL_ERROR / 500 with a
\* generic message: no exception text is interpolated into it.
C7_InternalErrorGeneric ==
    \A r \in Requests :
        (Answered(r) /\ PassedValidation(r) /\ engine[r] = NoResult)
            => /\ resp[r].code = "INTERNAL_ERROR"
               /\ resp[r].status = 500
               /\ resp[r].message.args = <<>>

(***************************************************************************)
(* C8                                                                      *)
(***************************************************************************)
\* C8: two Success responses for the same upload and the same engine
\* result carry the same markdown and the same metadata (filename, size,
\* mimeType, optional fields, and the dates that come from the document).
C8_SameUploadSameAnswer ==
    \A r1, r2 \in Requests :
        (/\ resp[r1].success /\ resp[r2].success
         /\ upload[r1] = upload[r2]
         /\ engine[r1] = engine[r2])
            => LET m1 == resp[r1].data.metadata
                   m2 == resp[r2].data.metadata
               IN  /\ resp[r1].data.markdown = resp[r2].data.markdown
                   /\ m1.filename = m2.filename
                   /\ m1.size = m2.size
                   /\ m1.mimeType = m2.mimeType
                   /\ m1.extra = m2.extra
                   /\ m1.createdDate.src = "doc" => m1.createdDate = m2.createdDate
                   /\ m1.modifiedDate.src = "doc" => m1.modifiedDate = m2.modifiedDate

(***************************************************************************)
(* C9                                                                      *)
(***************************************************************************)
\* C9: no two in-flight requests hold the same staged path; the file under
\* an in-flight request's path is its own; the engine reads only the
\* request's own file; os.unlink removes only the request's own file.
C9_StagedPathsPrivate ==
    /\ \A r1, r2 \in Requests :
           (r1 # r2 /\ InFlight(r1) /\ InFlight(r2))
               => temp_file[r1].id # temp_file[r2].id
    /\ \A r \in Requests :
           /\ InFlight(r) => disk[temp_file[r].id].owner = r
           /\ pc[r] \in {"reconciling", "cleanup", "unlinking", "done"}
                 /\ engine[r] # NoResult => readOwner[r] = r
           /\ unlinkedOwner[r] \in {0, r}

\* one request is about to unlink its file while another, staged under a
\* different path, is between the engine call and os.stat
C9_Witness ==
    \E r1, r2 \in Requests :
        /\ r1 # r2
        /\ pc[r1] = "unlinking"
        /\ pc[r2] = "reconciling"
        /\ readOwner[r2] = r2

(***************************************************************************)
(* C10                                                                     *)
(***************************************************************************)
\* what C10 states of a Success response
DatesFollowFallback(r) ==
    LET result == engine[r]
        md == resp[r].data.metadata
        supC == Supplied(result, result.created)
        supM == Supplied(result, result.modified)
    IN  /\ md.createdDate = IF supC THEN DocDate(result.created) ELSE IsoFormat("ctime")
        /\ md.modifiedDate = IF supM THEN DocDate(result.modified) ELSE IsoFormat("mtime")
        /\ resp[r].data.warnings =
               (IF supC THEN <<>> ELSE <<WarnCreated>>)
               \o (IF supM THEN <<>> ELSE <<WarnModified>>)

====
